---- MODULE Spec2Model ----
(***************************************************************************)
(* Genetic-algorithm optimizer (src/optimizer.py, class Optimizer).        *)
(*                                                                         *)
(* Network objects live on a heap: heap[id] is one Network, with its       *)
(* parameter dict (network) and its loss.  Lists (pop, graded, parents,    *)
(* children) are sequences of object ids, so that aliasing between a       *)
(* retained parent and a bred child is visible.  Python's 0-based indices  *)
(* are kept for male and female; parents[male] is parents[male + 1] here.  *)
(*                                                                         *)
(* Random draws are existential choices.  random.random() is a grid point  *)
(* r / den of [0, 1), where den is the denominator of the rate it is       *)
(* compared with, so that `rate > random.random()` can be true exactly     *)
(* when rate > 0 and false exactly when rate < 1.                          *)
(***************************************************************************)
EXTENDS Integers, Sequences, FiniteSets

\* ---------------------------------------------------------------- bounds
MaxN == 4       \* largest population handed to evolve / grade
RateDen == 2    \* retain, random_select, mutate_chance are k / RateDen
GenMaxN == 3    \* largest population in the multi-generation specification
MaxGen == 2     \* evaluate-and-evolve-again rounds after the first evolve

VARIABLES
  retain, random_select, mutate_chance,   \* self.retain, ... (rationals num/den)
  heap,            \* the Network objects, by id
  pop,             \* evolve's / grade's argument: a list of ids
  pc,              \* "start" | "loop" | "returned" | "raised" | "idle" | "called"
  graded, retain_length, parents, parents_length, desired_length, children,
  male, female,    \* the last indices drawn (-1: not drawn yet)
  breeds,          \* number of self.breed calls made by this evolve call
  result,          \* the returned list
  err,             \* the exception that left the call, or "none"
  entry,           \* the arguments and the optimizer as they were at the call
  call,            \* a direct call of breed / mutate / grade and what it returned
  generation       \* number of completed evaluate-and-evolve-again rounds

vars == <<retain, random_select, mutate_chance, heap, pop, pc, graded,
          retain_length, parents, parents_length, desired_length, children,
          male, female, breeds, result, err, entry, call, generation>>

\* ------------------------------------------------------- parameter space
Params == {"layers", "neurons"}

nn_param_choices == [layers |-> <<1, 2>>, neurons |-> <<16, 32>>]

Admissible(param) == {nn_param_choices[param][i] : i \in 1..Len(nn_param_choices[param])}

\* Network.create_random: any mapping of every key to one of its choices.
Genomes ==
  {g \in [Params -> UNION {Admissible(p) : p \in Params}] :
     \A p \in Params : g[p] \in Admissible(p)}

\* A Network object as Network(...).create_set(child) leaves it: it owns the
\* dict it was given, and no loss has been computed for it.
NewNetwork(child) == [network |-> child, loss |-> 0, evaluated |-> FALSE]

\* ------------------------------------------------------------------ rates
Rate(n, d) == [num |-> n, den |-> d]

RateGrid == {Rate(k, RateDen) : k \in 0..RateDen}

\* __init__'s defaults: retain=0.4, random_select=0.1, mutate_chance=0.2
DefaultRetain == Rate(4, 10)
DefaultRandomSelect == Rate(1, 10)
DefaultMutateChance == Rate(2, 10)

\* The possible values of `rate > random.random()`.
Chance(rate) == {rate.num > r : r \in 0..(rate.den - 1)}

\* ---------------------------------------------------------------- fitness
fitness(h, network) == h[network].loss

\* functools.reduce(add, s) for a non-empty s: a left fold from s[1].
Reduce(s) == LET RECURSIVE Go(_)
                 Go(i) == IF i = 1 THEN s[1] ELSE Go(i - 1) + s[i]
             IN Go(Len(s))

\* grade, for a non-empty pop: summed / len(pop), kept as the quotient num/den.
gradeBiased(h, p) == [num |-> Reduce([i \in 1..Len(p) |-> fitness(h, p[i])]),
                      den |-> Len(p) + 1]
grade(h, p) == [num |-> Reduce([i \in 1..Len(p) |-> fitness(h, p[i])]),
                den |-> Len(p)]

\* ---------------------------------------------------------------- sorting
\* sorted(graded, key=score, reverse=False): stable, ascending.  Insert puts x
\* behind every element whose score is not larger.
Insert(h, s, x) ==
  LET k == Cardinality({i \in 1..Len(s) : fitness(h, s[i]) <= fitness(h, x)})
  IN SubSeq(s, 1, k) \o <<x>> \o SubSeq(s, k + 1, Len(s))

InsertDescending(h, s, x) ==
  LET k == Cardinality({i \in 1..Len(s) : fitness(h, s[i]) >= fitness(h, x)})
  IN SubSeq(s, 1, k) \o <<x>> \o SubSeq(s, k + 1, Len(s))

SortedDescending(h, p) ==
  LET RECURSIVE Go(_)
      Go(i) == IF i = 0 THEN <<>> ELSE InsertDescending(h, Go(i - 1), p[i])
  IN Go(Len(p))
Sorted(h, p) ==
  LET RECURSIVE Go(_)
      Go(i) == IF i = 0 THEN <<>> ELSE Insert(h, Go(i - 1), p[i])
  IN Go(Len(p))

\* -------------------------------------------------------------- selection
\* int(len(graded) * self.retain), for a rate in [0, 1]
RetainLengthRoundedUp(n, rate) == (n * rate.num + rate.den - 1) \div rate.den
RetainLength(n, rate) == (n * rate.num) \div rate.den

\* The lists the loop `for individual in graded[retain_length:]` can append
\* to parents: each individual has its own draw of random.random().
RECURSIVE RandomlyKept(_, _)
RandomlyKept(rest, rate) ==
  IF rest = <<>> THEN {<<>>}
  ELSE {(IF keep THEN <<Head(rest)>> ELSE <<>>) \o t :
          keep \in Chance(rate), t \in RandomlyKept(Tail(rest), rate)}

\* --------------------------------------------------------------- mutation
\* mutate: network.network[mutation] = nn_param_choices[mutation][i], in place
mutateFromOtherKey(h, network, mutation, i) ==
  [h EXCEPT ![network].network[mutation] =
      nn_param_choices[CHOOSE q \in Params : q # mutation][i]]
mutateEveryKey(h, network, mutation, i) ==
  [h EXCEPT ![network].network =
      [p \in Params |-> nn_param_choices[p][i]]]
mutate(h, network, mutation, i) ==
  [h EXCEPT ![network].network[mutation] = nn_param_choices[mutation][i]]

\* Every heap one call of mutate can leave (mutation and i are its two draws).
Mutations(h, network) ==
  UNION {{mutate(h, network, m, i) : i \in 1..Len(nn_param_choices[m])} :
           m \in Params}

\* ------------------------------------------------------------------ breed
Picks == [Params -> 1..2]

\* child[param] = random.choice([mother.network[param], father.network[param]])
Child(h, mother, father, pick) ==
  [param \in Params |->
     <<h[mother].network[param], h[father].network[param]>>[pick[param]]]

\* One round of `for _ in range(2)`: from b = [heap, children], every
\* [heap, children] the round can leave.
BreedOneInPlace(b, mother, father) ==
  UNION {
    LET h1 == [b.heap EXCEPT ![mother].network = Child(b.heap, mother, father, pick)]
    IN {[heap |-> h2, children |-> Append(b.children, mother)] :
          h2 \in UNION {IF m THEN Mutations(h1, mother) ELSE {h1} :
                          m \in Chance(mutate_chance)}}
    : pick \in Picks}
BreedOne(b, mother, father) ==
  UNION {
    LET h1 == Append(b.heap, NewNetwork(Child(b.heap, mother, father, pick)))
        network == Len(h1)
    IN {[heap |-> h2, children |-> Append(b.children, network)] :
          h2 \in UNION {IF m THEN Mutations(h1, network) ELSE {h1} :
                          m \in Chance(mutate_chance)}}
    : pick \in Picks}

\* breed(mother, father): every [heap, children] it can return
breedOnce(h, mother, father) ==
  BreedOne([heap |-> h, children |-> <<>>], mother, father)
breed(h, mother, father) ==
  UNION {BreedOne(b1, mother, father) :
           b1 \in BreedOne([heap |-> h, children |-> <<>>], mother, father)}

\* `for baby in babies: if len(children) < desired_length: children.append(baby)`
AppendAll(kids, babies, desired) == kids \o babies
AppendBabies(kids, babies, desired) ==
  LET RECURSIVE Go(_)
      Go(i) == IF i = 0 THEN kids
               ELSE IF Len(Go(i - 1)) < desired THEN Append(Go(i - 1), babies[i])
                    ELSE Go(i - 1)
  IN Go(Len(babies))

\* `if male != female`
BreedsAnyPair(m, f) == TRUE
MayBreed(m, f) == m # f

\* `while len(children) < desired_length`
Loops(kids, desired) == Len(kids) < desired

\* Objects no list refers to any more are dropped: a baby that was made and
\* not appended is the last one allocated.
Collect(h, before, kids) ==
  LET live == {before} \cup {kids[i] : i \in 1..Len(kids)}
  IN SubSeq(h, 1, CHOOSE n \in live : \A k \in live : k <= n)

\* ----------------------------------------------------------- populations
FirstChoices == [p \in Params |-> nn_param_choices[p][1]]
LastChoices == [p \in Params |-> nn_param_choices[p][Len(nn_param_choices[p])]]

\* The genome at position i when it is not drawn freely.
Fixture(i) == IF i % 2 = 1 THEN FirstChoices ELSE LastChoices

\* Loss vectors of length n: ascending, descending, all tied, alternating.
LossProfiles(n) ==
  {[i \in 1..n |-> i], [i \in 1..n |-> n + 1 - i], [i \in 1..n |-> 1],
   [i \in 1..n |-> 1 + (i % 2)]}

Evaluated(g, l) == [network |-> g, loss |-> l, evaluated |-> TRUE]

\* Evaluated populations of n genomes: the first `free` genomes are any
\* genomes of the parameter space, the others the fixtures.
Populations(n, free) ==
  {[i \in 1..n |-> Evaluated(g[i], l[i])] :
     g \in {x \in [1..n -> Genomes] : \A i \in 1..n : i > free => x[i] = Fixture(i)},
     l \in LossProfiles(n)}

\* The caller's fitness evaluator: the loss it computes for a configuration.
Cost(g) == g["layers"] + g["neurons"] \div nn_param_choices["neurons"][1]

\* Every population of n evaluated genomes of the parameter space.
AllPopulations(n) ==
  {[i \in 1..n |-> Evaluated(g[i], Cost(g[i]))] : g \in [1..n -> Genomes]}

Ids(h) == [i \in 1..Len(h) |-> i]

Snapshot == [pop |-> pop, heap |-> heap, retain |-> retain,
             random_select |-> random_select, mutate_chance |-> mutate_chance]

NoCall == [op |-> "none"]

\* The locals of a call that has not run yet.
Fresh ==
  /\ graded = <<>> /\ retain_length = 0 /\ parents = <<>>
  /\ parents_length = 0 /\ desired_length = 0 /\ children = <<>>
  /\ male = -1 /\ female = -1 /\ breeds = 0
  /\ result = <<>> /\ err = "none"

\* ------------------------------------------------------------------- Init
\* One call of evolve: any rates of the grid, populations of fixture genomes.
Init ==
  /\ retain \in RateGrid /\ random_select \in RateGrid /\ mutate_chance \in RateGrid
  /\ \E n \in 0..MaxN : heap \in Populations(n, 0)
  /\ pop = Ids(heap)
  /\ pc = "start" /\ Fresh
  /\ entry = Snapshot /\ call = NoCall /\ generation = 0

\* Successive generations under __init__'s default rates, from every
\* evaluated population of valid genomes.
GenInit ==
  /\ retain = DefaultRetain /\ random_select = DefaultRandomSelect
  /\ mutate_chance = DefaultMutateChance
  /\ \E n \in 0..GenMaxN : heap \in AllPopulations(n)
  /\ pop = Ids(heap)
  /\ pc = "start" /\ Fresh
  /\ entry = Snapshot /\ call = NoCall /\ generation = 0

\* Direct calls of breed, mutate and grade.
PureInit ==
  /\ retain = DefaultRetain /\ random_select = DefaultRandomSelect
  /\ mutate_chance \in RateGrid
  /\ \E n \in 0..MaxN : heap \in Populations(n, 2)
  /\ pop = Ids(heap)
  /\ pc = "idle" /\ Fresh
  /\ entry = Snapshot /\ call = NoCall /\ generation = 0

\* ----------------------------------------------------------------- evolve
config == <<retain, random_select, mutate_chance>>

\* Lines 107-125: grade, sort, keep the best, randomly keep some others.
Select ==
  /\ pc = "start"
  /\ LET g == Sorted(heap, pop)
         rl == RetainLength(Len(g), retain)
     IN \E kept \in RandomlyKept(SubSeq(g, rl + 1, Len(g)), random_select) :
          /\ graded' = g
          /\ retain_length' = rl
          /\ parents' = SubSeq(g, 1, rl) \o kept
          /\ parents_length' = rl + Len(kept)
          /\ desired_length' = Len(pop) - (rl + Len(kept))
  /\ children' = <<>>
  /\ pc' = "loop"
  /\ UNCHANGED <<config, heap, pop, male, female, breeds, result, err, entry,
                 call, generation>>

\* Lines 131-132 with no parent: random.randint(0, -1) raises ValueError.
EmptyRange ==
  /\ pc = "loop" /\ Loops(children, desired_length)
  /\ parents_length - 1 < 0
  /\ pc' = "raised" /\ err' = "ValueError"
  /\ UNCHANGED <<config, heap, pop, graded, retain_length, parents,
                 parents_length, desired_length, children, male, female,
                 breeds, result, entry, call, generation>>

\* Lines 131-135: the two indices drawn do not pass `male != female`.
Redraw ==
  /\ pc = "loop" /\ Loops(children, desired_length)
  /\ \E m, f \in 0..(parents_length - 1) :
       /\ ~MayBreed(m, f)
       /\ male' = m /\ female' = f
  /\ UNCHANGED <<config, heap, pop, pc, graded, retain_length, parents,
                 parents_length, desired_length, children, breeds, result, err,
                 entry, call, generation>>

\* Lines 131-146: the two indices pass; breed, append the babies that fit.
BreedPair ==
  /\ pc = "loop" /\ Loops(children, desired_length)
  /\ \E m, f \in 0..(parents_length - 1) :
       /\ MayBreed(m, f)
       /\ male' = m /\ female' = f
       /\ \E b \in breed(heap, parents[m + 1], parents[f + 1]) :
            LET kids == AppendBabies(children, b.children, desired_length)
            IN /\ children' = kids
               /\ heap' = Collect(b.heap, Len(heap), kids)
  /\ breeds' = breeds + 1
  /\ UNCHANGED <<config, pop, pc, graded, retain_length, parents,
                 parents_length, desired_length, result, err, entry, call,
                 generation>>

\* Lines 148-150: parents.extend(children); return parents
Return ==
  /\ pc = "loop" /\ ~Loops(children, desired_length)
  /\ parents' = parents \o children
  /\ result' = parents \o children
  /\ pc' = "returned"
  /\ UNCHANGED <<config, heap, pop, graded, retain_length, parents_length,
                 desired_length, children, male, female, breeds, err, entry,
                 call, generation>>

Next == Select \/ EmptyRange \/ Redraw \/ BreedPair \/ Return

Spec == Init /\ [][Next]_vars

\* The loop keeps drawing, and a pair that random.randint can return is
\* eventually returned; the statements after the loop run.
FairInit ==
  /\ retain \in RateGrid /\ random_select \in RateGrid
  /\ mutate_chance = DefaultMutateChance
  /\ \E n \in 0..MaxN : heap = [i \in 1..n |-> Evaluated(Fixture(i), n + 1 - i)]
  /\ pop = Ids(heap)
  /\ pc = "start" /\ Fresh
  /\ entry = Snapshot /\ call = NoCall /\ generation = 0

FairSpec ==
  /\ FairInit /\ [][Next]_vars
  /\ WF_vars(BreedPair) /\ WF_vars(Return)

\* ------------------------------------------------------------ generations
\* The caller's loop: it computes the loss of every genome of the returned
\* population that has none yet and hands the population to evolve again.
\* The objects are renumbered by their position in the new population.
Evaluate ==
  /\ pc = "returned" /\ generation < MaxGen
  /\ heap' = [i \in 1..Len(result) |->
                IF heap[result[i]].evaluated THEN heap[result[i]]
                ELSE Evaluated(heap[result[i]].network,
                               Cost(heap[result[i]].network))]
  /\ pop' = [i \in 1..Len(result) |-> i]
  /\ entry' = [pop |-> pop', heap |-> heap', retain |-> retain,
               random_select |-> random_select, mutate_chance |-> mutate_chance]
  /\ generation' = generation + 1
  /\ pc' = "start"
  /\ graded' = <<>> /\ retain_length' = 0 /\ parents' = <<>>
  /\ parents_length' = 0 /\ desired_length' = 0 /\ children' = <<>>
  /\ male' = -1 /\ female' = -1 /\ breeds' = 0
  /\ result' = <<>>
  /\ UNCHANGED <<config, err, call>>

GenNext == Next \/ Evaluate

GenSpec == GenInit /\ [][GenNext]_vars

\* ----------------------------------------------------------- direct calls
\* breed(mother, father) on two genomes of the population
CallBreed ==
  /\ pc = "idle"
  /\ \E mother, father \in 1..Len(heap) :
       /\ mother # father
       /\ \E b \in breed(heap, mother, father) :
            /\ heap' = b.heap
            /\ call' = [op |-> "breed", mother |-> mother, father |-> father,
                        children |-> b.children]
  /\ pc' = "called"
  /\ UNCHANGED <<config, pop, graded, retain_length, parents, parents_length,
                 desired_length, children, male, female, breeds, result, err,
                 entry, generation>>

\* mutate(network) on a genome of the population
CallMutate ==
  /\ pc = "idle"
  /\ \E network \in 1..Len(heap) :
       \E h \in Mutations(heap, network) :
         /\ heap' = h
         /\ call' = [op |-> "mutate", network |-> network, returned |-> network]
  /\ pc' = "called"
  /\ UNCHANGED <<config, pop, graded, retain_length, parents, parents_length,
                 desired_length, children, male, female, breeds, result, err,
                 entry, generation>>

\* grade(pop): reduce raises TypeError on an empty sequence
CallGrade ==
  /\ pc = "idle"
  /\ IF Len(pop) = 0
     THEN /\ pc' = "raised" /\ err' = "TypeError"
          /\ UNCHANGED call
     ELSE /\ pc' = "called" /\ err' = err
          /\ call' = [op |-> "grade", returned |-> grade(heap, pop)]
  /\ UNCHANGED <<config, heap, pop, graded, retain_length, parents,
                 parents_length, desired_length, children, male, female,
                 breeds, result, entry, generation>>

PureNext == CallBreed \/ CallMutate \/ CallGrade

PureSpec == PureInit /\ [][PureNext]_vars

\* ================================================================= claims
Range(s) == {s[i] : i \in 1..Len(s)}

SeqSum(s) == LET RECURSIVE Go(_)
                 Go(i) == IF i = 0 THEN 0 ELSE Go(i - 1) + s[i]
             IN Go(Len(s))

Ascending(s) ==
  \A i, j \in 1..Len(s) : i < j => fitness(heap, s[i]) <= fitness(heap, s[j])

Times(s, x) == Cardinality({i \in 1..Len(s) : s[i] = x})

SameMultiset(s, t) ==
  /\ Len(s) = Len(t)
  /\ \A x \in Range(s) \cup Range(t) : Times(s, x) = Times(t, x)

Selected == pc \in {"loop", "returned", "raised"}

Valid(g) ==
  /\ DOMAIN g = Params
  /\ \A p \in Params : g[p] \in Admissible(p)

\* The keys at which a genome's value comes from neither parent.
Foreign(child, mother, father) ==
  {p \in Params : heap[child].network[p] \notin
                    {heap[mother].network[p], heap[father].network[p]}}

\* The keys at which an object's mapping is not what it was at the call.
Changed(network) ==
  {p \in Params : heap[network].network[p] # entry.heap[network].network[p]}

\* C1: evolve returns a population of the input's length N whenever N >= 2 and
\* selection left at least 2 parents: the parents followed by the children,
\* and the children list never grows beyond desired_length = N - parents_count.
C1_EvolveRestoresLength ==
  /\ Selected => /\ desired_length = Len(pop) - parents_length
                 /\ Len(children) <= desired_length
  /\ (pc = "returned" /\ Len(pop) >= 2 /\ parents_length >= 2) =>
       /\ Len(result) = Len(pop)
       /\ Len(children) = desired_length
       /\ SubSeq(result, 1, parents_length) = SubSeq(graded, 1, retain_length)
            \o SubSeq(parents, retain_length + 1, parents_length)
       /\ SubSeq(result, parents_length + 1, Len(result)) = children

\* C1 witness: a breed whose second baby did not fit, and evolve returned.
C1_Witness ==
  /\ pc = "returned" /\ Len(pop) >= 3 /\ parents_length >= 2
  /\ breeds >= 1 /\ Len(children) % 2 = 1

\* C2 (as claimed): with fewer than 2 parents and children still required,
\* evolve draws no index, ends only by raising InsufficientParents, and does
\* not return.
C2_InsufficientParentsRaised ==
  (Selected /\ parents_length < 2 /\ desired_length > 0) =>
    /\ male = -1 /\ female = -1
    /\ pc # "returned"
    /\ pc = "raised" => err = "InsufficientParents"

\* C3 (as claimed): breed returns 2 children, and every value of every child
\* is its mother's or its father's value at that key.
C3_ChildrenOnlyFromParents ==
  call.op = "breed" =>
    /\ Len(call.children) = 2
    /\ \A i \in 1..Len(call.children) :
         Foreign(call.children[i], call.mother, call.father) = {}

\* C3 (amended): breed returns 2 children; every value of a child is its
\* mother's or its father's value at that key, except at no more than one key
\* per child (the key mutate rewrote), where it is admissible for the key;
\* with mutate_chance = 0 there is no such key.
C3_ChildrenFromParentsOrMutation ==
  call.op = "breed" =>
    /\ Len(call.children) = 2
    /\ \A i \in 1..Len(call.children) :
         LET c == call.children[i]
         IN /\ Cardinality(Foreign(c, call.mother, call.father)) <= 1
            /\ Valid(heap[c].network)
            /\ mutate_chance.num = 0 =>
                 Foreign(c, call.mother, call.father) = {}

\* C3 witness: a bred child that carries a value of neither parent.
C3_Witness ==
  /\ call.op = "breed" /\ Len(call.children) = 2
  /\ Foreign(call.children[2], call.mother, call.father) # {}

\* C4 (as claimed): after mutate the genome differs from its prior mapping in
\* exactly one key.
C4_ExactlyOneKeyDiffers ==
  call.op = "mutate" => Cardinality(Changed(call.network)) = 1

\* C4 (amended): mutate assigns one key an admissible value and leaves every
\* other key alone: the genome differs from its prior mapping in at most one
\* key (in none when the value drawn is the prior one); its loss and every
\* other genome are untouched.
C4_AtMostOneKeyDiffers ==
  call.op = "mutate" =>
    /\ Cardinality(Changed(call.network)) <= 1
    /\ Valid(heap[call.network].network)
    /\ heap[call.network].loss = entry.heap[call.network].loss
    /\ call.returned = call.network
    /\ Len(heap) = Len(entry.heap)
    /\ \A o \in 1..Len(heap) : o # call.network => heap[o] = entry.heap[o]

\* C4 witness: a mutate call that changed a value.
C4_Witness ==
  call.op = "mutate" /\ Cardinality(Changed(call.network)) = 1

\* C5: with retain = 1.0 and random_select = 0, evolve returns the genomes of
\* pop, the same multiset, ascending by fitness, without calling breed
\* (desired_length = 0, no index is drawn).
C5_FullRetainOnlySorts ==
  (retain.num = retain.den /\ random_select.num = 0) =>
    /\ pc # "raised"
    /\ Selected => desired_length = 0 /\ breeds = 0 /\ male = -1 /\ female = -1
    /\ pc = "returned" =>
         /\ SameMultiset(result, pop)
         /\ Ascending(result)
         /\ heap = entry.heap

\* C5 witness: such a call returned a reordering of three or more genomes.
C5_Witness ==
  /\ retain.num = retain.den /\ random_select.num = 0
  /\ pc = "returned" /\ Len(pop) >= 3 /\ result # pop

\* C6: retain_length = floor(N * retain); the retain_length genomes of lowest
\* cost are parents whatever is drawn and are, in ascending cost order, the
\* first retain_length elements of the returned population; every other
\* parent is one of the remaining genomes, kept once, so parents_count is in
\* [retain_length, N] (retain_length when random_select = 0, N when it is 1).
C6_EliteAlwaysParents ==
  Selected =>
    LET n == Len(pop)
        elite == {parents[i] : i \in 1..retain_length}
        others == {parents[i] : i \in (retain_length + 1)..parents_length}
    IN /\ retain_length * retain.den <= n * retain.num
       /\ n * retain.num < (retain_length + 1) * retain.den
       /\ retain_length <= parents_length /\ parents_length <= n
       /\ Cardinality(elite) = retain_length /\ elite \subseteq Range(pop)
       /\ \A e \in elite : \A o \in Range(pop) \ elite :
            fitness(heap, e) <= fitness(heap, o)
       /\ Ascending(SubSeq(parents, 1, retain_length))
       /\ Cardinality(others) = parents_length - retain_length
       /\ others \subseteq Range(pop) \ elite
       /\ random_select.num = 0 => parents_length = retain_length
       /\ random_select.num = random_select.den => parents_length = n
       /\ pc = "returned" =>
            SubSeq(result, 1, retain_length) = SubSeq(graded, 1, retain_length)

\* C6 witness: some but not all genomes are elite, one more was kept by its
\* draw, and the best genome was not first in pop.
C6_Witness ==
  /\ pc = "returned" /\ 0 < retain_length /\ retain_length < parents_length
  /\ parents_length < Len(pop) /\ result[1] # pop[1]

C8_GenomesStayValid ==
  /\ \A o \in 1..Len(heap) : Valid(heap[o].network)
  /\ Range(pop) \cup Range(parents) \cup Range(children) \cup Range(result)
       \subseteq 1..Len(heap)

\* C8 witness: a second evolve call bred children and returned.
C8_Witness ==
  /\ generation >= 1 /\ pc = "returned" /\ breeds >= 1
  /\ \E i \in 1..Len(result) : ~heap[result[i]].evaluated

\* C9: the breeding loop terminates: it runs zero times when parents_count >=
\* N; with 2 <= parents_count < N, and a pair of distinct indices eventually
\* drawn, evolve returns; breed is only ever called for two different parent
\* indices, and a draw of equal indices produces nothing.
C9_BreedingLoopTerminates ==
  /\ [](pc = "loop" /\ parents_length >= 2 => <>(pc = "returned"))
  /\ [](Selected /\ parents_length >= Len(pop) =>
          breeds = 0 /\ male = -1 /\ female = -1)
  /\ [][breeds' # breeds =>
          /\ male' # female'
          /\ male' \in 0..(parents_length - 1)
          /\ female' \in 0..(parents_length - 1)
          /\ Len(children') > Len(children)]_vars
  /\ [][(pc = "loop" /\ pc' = "loop" /\ male' = female') =>
          /\ children' = children /\ heap' = heap /\ breeds' = breeds]_vars

\* C9 witness: with some but not all genomes parents, the loop bred and
\* evolve returned.
C9_Witness ==
  /\ pc = "returned" /\ breeds >= 1
  /\ parents_length >= 2 /\ parents_length < Len(pop)

\* C10: evolve leaves its argument and the optimizer as they were: pop, every
\* input genome's mapping and loss, and the rates; every child is a new
\* object, so the mutation inside breed never changes a retained parent.
C10_EvolveLeavesInputsAlone ==
  /\ pop = entry.pop
  /\ retain = entry.retain /\ random_select = entry.random_select
  /\ mutate_chance = entry.mutate_chance
  /\ Len(heap) >= Len(entry.heap)
  /\ \A o \in 1..Len(entry.heap) : heap[o] = entry.heap[o]
  /\ \A i \in 1..Len(children) :
       /\ children[i] > Len(entry.heap)
       /\ \A j \in 1..Len(children) : children[i] = children[j] => i = j
  /\ pc = "returned" =>
       \A i \in 1..parents_length : result[i] \in Range(entry.pop)

\* C10 witness: evolve returned with a child whose mapping no input genome has.
C10_Witness ==
  /\ pc = "returned"
  /\ \E i \in 1..Len(children) :
       \A o \in 1..Len(entry.heap) :
         heap[children[i]].network # entry.heap[o].network
====
